---- MODULE Spec2Model ----
(***************************************************************************)
(* Model of cpp/main.cpp: the OpenTelemetry C++ sample application.        *)
(*                                                                         *)
(* main() installs an SDK tracer provider (InitTracer), runs ProcessRequest*)
(* num_requests times and clears the provider (CleanupTracer).  The main   *)
(* thread is modelled statement by statement: ProcessRequest is a listing  *)
(* of the tracing calls of main.cpp:88-153, interpreted by one action per  *)
(* kind of call.  The batch span processor created in InitTracer runs its  *)
(* export on a background thread, modelled by the action BackgroundExport. *)
(***************************************************************************)
EXTENDS Integers, Sequences, FiniteSets, TLC

VARIABLES
    env,    \* the process environment read by std::getenv
    run,    \* the main thread: position, locals, context stack, call log
    twin,   \* a second main thread, used only by SpecPair (dice independent)
    sdk     \* the global provider and the processor it owns

vars == <<env, run, twin, sdk>>

----------------------------------------------------------------------------
(* Program constants *)

num_requests == 10

max_queue_size == 2048

max_export_batch_size == 512

\* Outcomes of std::uniform_int_distribution<> distrib(0, 6): an off-by-one
\* lower limit.
RollDiceFromZero == 0..6

\* Outcomes of distrib(gen) with distrib(1, 6).
RollDice == 1..6

(* Bounds of the model *)

\* How many times CleanupTracer is called in SpecShutdown.
MaxCleanupCalls == 2

\* Values an environment variable may hold when it is present.
EnvValues == {"", "prod"}

\* std::getenv returning a null pointer.
Absent == "<null>"

EnvNames == {"OTEL_SERVICE_NAME", "DEPLOYMENT_ENVIRONMENT"}

----------------------------------------------------------------------------
(* Values *)

Text(s) == <<"string", s>>

Num(n) == <<"int", n>>

NoValue == <<"none", 0>>

NoSpanId == <<0, "none">>

SpanVars == {"server_span", "child_span", "db_span"}

EmptyAttrs == [k \in {} |-> NoValue]

NullSpan ==
    [id |-> NoSpanId, kind |-> "", name |-> "", parent |-> NoSpanId,
     attrs |-> EmptyAttrs, ended |-> FALSE]

----------------------------------------------------------------------------
(* The listing of ProcessRequest *)

Ins(op, line) ==
    [op |-> op, line |-> line, var |-> "", name |-> "", kind |-> "",
     key |-> "", arg |-> "", val |-> NoValue]

MkStartSpan(line, var, name, kind) ==
    [Ins("StartSpan", line) EXCEPT !.var = var, !.name = name, !.kind = kind]

MkWithActiveSpan(line, var) == [Ins("WithActiveSpan", line) EXCEPT !.var = var]

MkSetAttribute(line, var, key, val) ==
    [Ins("SetAttribute", line) EXCEPT !.var = var, !.key = key,
                                      !.arg = "literal", !.val = val]

MkSetAttributeOf(line, var, key, arg) ==
    [Ins("SetAttribute", line) EXCEPT !.var = var, !.key = key, !.arg = arg]

MkEnd(line, var) == [Ins("End", line) EXCEPT !.var = var]

MkScopeExit(line, var) == [Ins("ScopeExit", line) EXCEPT !.var = var]

\* main.cpp:88-107
ServerOpen ==
    << Ins("GetTracer", 88),
       MkStartSpan(94, "server_span", "GET /roll-dice", "server"),
       MkWithActiveSpan(95, "server_span"),
       MkSetAttribute(98, "server_span", "http.method", Text("GET")),
       MkSetAttribute(99, "server_span", "http.scheme", Text("http")),
       MkSetAttribute(100, "server_span", "http.target", Text("/roll-dice")),
       MkSetAttribute(101, "server_span", "http.route", Text("/roll-dice")),
       MkSetAttribute(102, "server_span", "http.host", Text("localhost:8080")),
       MkSetAttribute(103, "server_span", "http.user_agent", Text("curl/7.68.0")),
       MkSetAttribute(104, "server_span", "http.request_content_length", Num(0)),
       MkSetAttribute(105, "server_span", "net.host.name", Text("localhost")),
       MkSetAttribute(106, "server_span", "net.host.port", Num(8080)),
       MkSetAttributeOf(107, "server_span", "request.id", "request_id") >>

\* The internal block with child_scope declared at function scope: no closing
\* brace pops it before the client span starts.
InternalBlockNoScope ==
    << MkStartSpan(114, "child_span", "roll_dice", "internal"),
       MkWithActiveSpan(115, "child_span"),
       Ins("Sleep", 118),
       Ins("RollDice", 120),
       MkSetAttributeOf(121, "child_span", "dice.result", "dice_result"),
       MkEnd(125, "child_span") >>

\* main.cpp:110-126.  Line 123 only writes the outcome to std::cout.
InternalBlock ==
    << MkStartSpan(114, "child_span", "roll_dice", "internal"),
       MkWithActiveSpan(115, "child_span"),
       Ins("Sleep", 118),
       Ins("RollDice", 120),
       MkSetAttributeOf(121, "child_span", "dice.result", "dice_result"),
       MkEnd(125, "child_span"),
       MkScopeExit(126, "child_span") >>

\* main.cpp:129-147
ClientBlock ==
    << MkStartSpan(133, "db_span", "postgresql.query", "client"),
       MkWithActiveSpan(134, "db_span"),
       MkSetAttribute(136, "db_span", "db.system", Text("postgresql")),
       MkSetAttribute(137, "db_span", "db.name", Text("dice_db")),
       MkSetAttribute(138, "db_span", "db.operation", Text("INSERT")),
       MkSetAttribute(139, "db_span", "db.statement",
                     Text("INSERT INTO rolls (value) VALUES ($1)")),
       MkSetAttribute(140, "db_span", "net.peer.name", Text("db.example.com")),
       MkSetAttribute(141, "db_span", "net.peer.port", Num(5432)),
       Ins("Sleep", 144),
       MkEnd(146, "db_span"),
       MkScopeExit(147, "db_span") >>

\* The closing statements with End() moved above the response attributes.
ServerCloseEndFirst ==
    << MkEnd(152, "server_span"),
       MkSetAttribute(150, "server_span", "http.status_code", Num(200)),
       MkSetAttribute(151, "server_span", "http.response_content_length", Num(42)),
       Ins("Return", 153) >>

\* main.cpp:149-153
ServerClose ==
    << MkSetAttribute(150, "server_span", "http.status_code", Num(200)),
       MkSetAttribute(151, "server_span", "http.response_content_length", Num(42)),
       MkEnd(152, "server_span"),
       Ins("Return", 153) >>

\* The body with the client block written before the internal block.
ProcessRequestClientFirst ==
    ServerOpen \o ClientBlock \o InternalBlock \o ServerClose

\* main.cpp:87-153
ProcessRequest == ServerOpen \o InternalBlock \o ClientBlock \o ServerClose

----------------------------------------------------------------------------
(* The main thread *)

\* One entry of the call log: which tracing call was made, on which span,
\* with which attribute key, under which parent and global provider.  The log
\* keeps, for each call of ProcessRequest(request_id), the calls it made.
Event(ev, id, key, parent, prov) ==
    [ev |-> ev, span |-> id, key |-> key, parent |-> parent, prov |-> prov]

InitThread ==
    [pc |-> "InitTracer", i |-> 0, request_id |-> 0, ip |-> 0,
     tracer |-> "none", span |-> [v \in SpanVars |-> NullSpan],
     stack |-> <<>>, dice_result |-> 0, cleanups |-> 0,
     log |-> [r \in 1..num_requests |-> <<>>]]

Instr(t) == ProcessRequest[t.ip]

AtInstr(t, op) ==
    /\ t.pc = "ProcessRequest"
    /\ t.ip \in 1..Len(ProcessRequest)
    /\ Instr(t).op = op

Top(stack) == IF stack = <<>> THEN NoSpanId ELSE stack[Len(stack)]

\* Context::Detach of a scope token: pops down to and including the token,
\* and does nothing when the token is not on the stack.
Detach(stack, id) ==
    LET at == {k \in 1..Len(stack) : stack[k] = id}
    IN  IF at = {} THEN stack
        ELSE SubSeq(stack, 1, (CHOOSE k \in at : \A j \in at : j <= k) - 1)

\* The loop test written i < num_requests.
LoopCondStrict(i) == i < num_requests

\* main.cpp:167
LoopCond(i) == i <= num_requests

\* main.cpp:161, 164-167: InitTracer() returns, the loop variable starts at 1.
DoInitTracer(t) == [t EXCEPT !.pc = "loop", !.i = 1]

\* main.cpp:167-168: the loop test and the call ProcessRequest(i).
DoLoop(t) ==
    IF LoopCond(t.i)
    THEN [t EXCEPT !.pc = "ProcessRequest", !.ip = 1, !.request_id = t.i]
    ELSE [t EXCEPT !.pc = "CleanupTracer"]

\* main.cpp:88.  GetTracerProvider() of a cleared global provider is an empty
\* pointer; the call through it ends the process.
DoGetTracer(t, prov) ==
    IF prov = "null"
    THEN [t EXCEPT !.pc = "crashed"]
    ELSE [t EXCEPT !.tracer = prov, !.ip = @ + 1]

\* main.cpp:94, 114, 133
DoStartSpan(t, ins, prov) ==
    LET id == <<t.request_id, ins.kind>>
        parent == Top(t.stack)
    IN  [t EXCEPT
            !.span[ins.var] = [id |-> id, kind |-> ins.kind, name |-> ins.name,
                               parent |-> parent, attrs |-> EmptyAttrs,
                               ended |-> FALSE],
            !.log[t.request_id] = Append(@, Event("start", id, ins.name, parent, prov)),
            !.ip = @ + 1]

\* main.cpp:95, 115, 134
DoWithActiveSpan(t, ins) ==
    LET id == t.span[ins.var].id
    IN  [t EXCEPT
            !.stack = Append(@, id),
            !.log[t.request_id] = Append(@, Event("push", id, "", Top(t.stack), "")),
            !.ip = @ + 1]

ArgValue(t, ins) ==
    CASE ins.arg = "request_id" -> Num(t.request_id)
      [] ins.arg = "dice_result" -> Num(t.dice_result)
      [] OTHER -> ins.val

SetAttr(attrs, key, val) ==
    [k \in DOMAIN attrs \cup {key} |-> IF k = key THEN val ELSE attrs[k]]

\* main.cpp:98-107, 121, 136-141, 150-151.  An ended span ignores the call.
DoSetAttribute(t, ins, prov) ==
    LET s == t.span[ins.var]
    IN  [t EXCEPT
            !.span[ins.var].attrs =
                IF s.ended THEN @ ELSE SetAttr(@, ins.key, ArgValue(t, ins)),
            !.log[t.request_id] = Append(@, Event("set", s.id, ins.key, s.parent, prov)),
            !.ip = @ + 1]

\* main.cpp:118, 144: the thread sleeps for a random time and changes nothing.
DoSleep(t) == [t EXCEPT !.ip = @ + 1]

\* main.cpp:120
DoRollDice(t, d) == [t EXCEPT !.dice_result = d, !.ip = @ + 1]

\* main.cpp:125, 146, 152
DoEnd(t, ins, prov) ==
    LET s == t.span[ins.var]
    IN  [t EXCEPT
            !.span[ins.var].ended = TRUE,
            !.log[t.request_id] = Append(@, Event("end", s.id, s.name, s.parent, prov)),
            !.ip = @ + 1]

\* main.cpp:126, 147: the closing brace destroys the scope (detaching its
\* context token) and then the span handle; dice_result leaves scope too.
DoScopeExit(t, ins) ==
    LET id == t.span[ins.var].id
    IN  [t EXCEPT
            !.stack = Detach(@, id),
            !.log[t.request_id] = Append(@, Event("pop", id, "", Top(t.stack), "")),
            !.span[ins.var] = NullSpan,
            !.dice_result = 0,
            !.ip = @ + 1]

\* main.cpp:153: server_scope, server_span and tracer are destroyed.
DoReturn(t) ==
    LET id == t.span["server_span"].id
    IN  [t EXCEPT
            !.stack = Detach(@, id),
            !.log[t.request_id] = Append(@, Event("pop", id, "", Top(t.stack), "")),
            !.span = [v \in SpanVars |-> NullSpan],
            !.tracer = "none",
            !.request_id = 0,
            !.ip = 0,
            !.pc = "pause"]

\* main.cpp:167, 170: the pause between requests and i++.
DoPause(t) == [t EXCEPT !.i = @ + 1, !.pc = "loop"]

\* main.cpp:71
DoCleanupSleep(t) == [t EXCEPT !.pc = "CleanupReset"]

\* main.cpp:74-75: the call of SetTracerProvider(none) is entered.
DoCleanupReset(t) == [t EXCEPT !.pc = "ProviderRelease"]

\* main.cpp:75-78: SetTracerProvider returns, CleanupTracer() returns.
DoCleanupReturn(t) == [t EXCEPT !.cleanups = @ + 1, !.pc = "return"]

\* main.cpp:178-180
DoFinish(t) == [t EXCEPT !.pc = "done"]

\* One step of a main thread whose dice outcome is d, with the SDK state s:
\* the statement at its own position.
ThreadNext(t, d, s) ==
    CASE t.pc = "InitTracer" -> DoInitTracer(t)
      [] t.pc = "loop" -> DoLoop(t)
      [] t.pc = "pause" -> DoPause(t)
      [] t.pc = "CleanupTracer" -> DoCleanupSleep(t)
      [] t.pc = "CleanupReset" -> DoCleanupReset(t)
      [] t.pc = "ProviderRelease" -> DoCleanupReturn(t)
      [] t.pc = "return" -> DoFinish(t)
      [] AtInstr(t, "GetTracer") -> DoGetTracer(t, s.provider)
      [] AtInstr(t, "StartSpan") -> DoStartSpan(t, Instr(t), s.provider)
      [] AtInstr(t, "WithActiveSpan") -> DoWithActiveSpan(t, Instr(t))
      [] AtInstr(t, "SetAttribute") -> DoSetAttribute(t, Instr(t), s.provider)
      [] AtInstr(t, "Sleep") -> DoSleep(t)
      [] AtInstr(t, "RollDice") -> DoRollDice(t, d)
      [] AtInstr(t, "End") -> DoEnd(t, Instr(t), s.provider)
      [] AtInstr(t, "ScopeExit") -> DoScopeExit(t, Instr(t))
      [] AtInstr(t, "Return") -> DoReturn(t)
      [] OTHER -> t

----------------------------------------------------------------------------
(* The global provider, its resource and its batch span processor *)

InitSdk ==
    [provider |-> "noop",
     resource |-> [service_name |-> Absent, deployment_environment |-> Absent],
     buffer |-> <<>>, exported |-> <<>>, writes |-> <<>>,
     created |-> 0, released |-> 0, draining |-> FALSE]

\* GetEnvVar treating an empty value like an unset variable.
GetEnvVarNonEmpty(e, var_name, default_value) ==
    IF e[var_name] = Absent \/ e[var_name] = "" THEN default_value
    ELSE e[var_name]

\* main.cpp:25-28
GetEnvVar(e, var_name, default_value) ==
    IF e[var_name] = Absent THEN default_value ELSE e[var_name]

Min(a, b) == IF a <= b THEN a ELSE b

\* The spans of a batch in the reverse of their buffer order.
RECURSIVE Reverse(_)
Reverse(q) == IF q = <<>> THEN <<>> ELSE Append(Reverse(Tail(q)), Head(q))

\* An export call handing its batch over newest span first.
ExportReversed(s) ==
    LET n == Min(Len(s.buffer), max_export_batch_size)
        batch == [k \in 1..n |->
                    [span |-> Reverse(SubSeq(s.buffer, 1, n))[k],
                     resource |-> s.resource]]
    IN  [s EXCEPT
            !.exported = @ \o batch,
            !.buffer = SubSeq(@, n + 1, Len(@))]

\* One export call: the oldest spans of the buffer, at most
\* max_export_batch_size of them, leave the buffer for the Exporter, each
\* with the provider's resource.
Export(s) ==
    LET n == Min(Len(s.buffer), max_export_batch_size)
        batch == [k \in 1..n |->
                    [span |-> s.buffer[k], resource |-> s.resource]]
    IN  [s EXCEPT
            !.exported = @ \o batch,
            !.buffer = SubSeq(@, n + 1, Len(@))]

\* A shutdown whose worker is not stopped: it goes on exporting afterwards.
FinishShutdownWorkerRuns(s) ==
    IF s.draining THEN [s EXCEPT !.released = @ + 1] ELSE s

\* The shutdown of a destroyed provider ends: its bounded wait for the flush
\* is over and the worker stops.  Spans still in the buffer are never
\* exported: they are lost.
FinishShutdown(s) ==
    IF s.draining THEN [s EXCEPT !.draining = FALSE, !.released = @ + 1] ELSE s

\* Provider::SetTracerProvider: the global pointer is overwritten; when it held
\* the only reference to the SDK provider, that provider is destroyed and its
\* processor shuts down, flushing the buffer for a bounded time.
SetTracerProvider(s, p) ==
    LET s1 == [s EXCEPT !.provider = p, !.writes = Append(@, p)]
    IN  IF s.provider = "sdk" /\ p # "sdk"
        THEN [s1 EXCEPT !.draining = TRUE]
        ELSE s1

\* The processor's OnEnd: a finished span is queued unless the queue is full
\* or no SDK processor is behind the span.
OnEnd(s, span) ==
    IF s.provider = "sdk" /\ Len(s.buffer) < max_queue_size
    THEN [s EXCEPT !.buffer = Append(@, [id |-> span.id, kind |-> span.kind,
                                         parent |-> span.parent])]
    ELSE s

\* InitTracer building the provider and never installing it.
InitTracerNotInstalled(e, s) ==
    [s EXCEPT
        !.resource =
            [service_name |-> GetEnvVar(e, "OTEL_SERVICE_NAME", "cpp-sample-app"),
             deployment_environment |->
                 GetEnvVar(e, "DEPLOYMENT_ENVIRONMENT", "local")],
        !.buffer = <<>>,
        !.created = @ + 1]

\* main.cpp:30-63
InitTracer(e, s) ==
    LET service_name == GetEnvVar(e, "OTEL_SERVICE_NAME", "cpp-sample-app")
        deployment_env == GetEnvVar(e, "DEPLOYMENT_ENVIRONMENT", "local")
        built == [s EXCEPT
                    !.resource = [service_name |-> service_name,
                                  deployment_environment |-> deployment_env],
                    !.buffer = <<>>,
                    !.created = @ + 1]
    IN  SetTracerProvider(built, "sdk")

\* CleanupTracer that only waits and never resets the global provider.
CleanupTracerSleepOnly(s) == s

\* CleanupTracer that destroys the provider itself on every call.
CleanupTracerAlwaysRelease(s) ==
    [s EXCEPT !.provider = "null", !.writes = Append(@, "null"),
              !.draining = TRUE]

\* main.cpp:73-75
CleanupTracer(s) == SetTracerProvider(s, "null")

----------------------------------------------------------------------------
(* Actions of the main thread *)

InitTracerStep ==
    /\ run.pc = "InitTracer"
    /\ sdk' = InitTracer(env, sdk)
    /\ run' = DoInitTracer(run)
    /\ UNCHANGED env

Loop ==
    /\ run.pc = "loop"
    /\ run' = DoLoop(run)
    /\ UNCHANGED <<env, sdk>>

GetTracer ==
    /\ AtInstr(run, "GetTracer")
    /\ run' = DoGetTracer(run, sdk.provider)
    /\ UNCHANGED <<env, sdk>>

StartSpan ==
    /\ AtInstr(run, "StartSpan")
    /\ run' = DoStartSpan(run, Instr(run), sdk.provider)
    /\ UNCHANGED <<env, sdk>>

WithActiveSpan ==
    /\ AtInstr(run, "WithActiveSpan")
    /\ run' = DoWithActiveSpan(run, Instr(run))
    /\ UNCHANGED <<env, sdk>>

SetAttribute ==
    /\ AtInstr(run, "SetAttribute")
    /\ run' = DoSetAttribute(run, Instr(run), sdk.provider)
    /\ UNCHANGED <<env, sdk>>

Sleep ==
    /\ AtInstr(run, "Sleep")
    /\ run' = DoSleep(run)
    /\ UNCHANGED <<env, sdk>>

RollDiceStep ==
    /\ AtInstr(run, "RollDice")
    /\ \E d \in RollDice : run' = DoRollDice(run, d)
    /\ UNCHANGED <<env, sdk>>

\* Span::End hands a span that has not ended before to the processor.
End ==
    /\ AtInstr(run, "End")
    /\ run' = DoEnd(run, Instr(run), sdk.provider)
    /\ sdk' = IF run.span[Instr(run).var].ended THEN sdk
              ELSE OnEnd(sdk, run.span[Instr(run).var])
    /\ UNCHANGED env

ScopeExit ==
    /\ AtInstr(run, "ScopeExit")
    /\ run' = DoScopeExit(run, Instr(run))
    /\ UNCHANGED <<env, sdk>>

Return ==
    /\ AtInstr(run, "Return")
    /\ run' = DoReturn(run)
    /\ UNCHANGED <<env, sdk>>

Pause ==
    /\ run.pc = "pause"
    /\ run' = DoPause(run)
    /\ UNCHANGED <<env, sdk>>

CleanupSleep ==
    /\ run.pc = "CleanupTracer"
    /\ run' = DoCleanupSleep(run)
    /\ UNCHANGED <<env, sdk>>

CleanupReset ==
    /\ run.pc = "CleanupReset"
    /\ sdk' = CleanupTracer(sdk)
    /\ run' = DoCleanupReset(run)
    /\ UNCHANGED env

\* The shutdown flush of the destroyed provider's processor: one export call.
\* It runs only until the shutdown's bounded wait is over (CleanupReturn).
ShutdownExport ==
    /\ sdk.draining
    /\ sdk.buffer # <<>>
    /\ sdk' = Export(sdk)
    /\ UNCHANGED <<env, run>>

\* SetTracerProvider and CleanupTracer return, whether or not the flush of a
\* destroyed provider has emptied the buffer.
CleanupReturn ==
    /\ run.pc = "ProviderRelease"
    /\ sdk' = FinishShutdown(sdk)
    /\ run' = DoCleanupReturn(run)
    /\ UNCHANGED env

Finish ==
    /\ run.pc = "return"
    /\ run' = DoFinish(run)
    /\ UNCHANGED <<env, sdk>>

\* The processor's worker thread: its schedule timer fires and it exports one
\* batch.  It runs while the SDK provider is alive.
BackgroundExport ==
    /\ sdk.provider = "sdk"
    /\ sdk.buffer # <<>>
    /\ sdk' = Export(sdk)
    /\ UNCHANGED <<env, run>>

\* A caller invoking CleanupTracer() once more after it returned.
CleanupAgain ==
    /\ run.pc = "return"
    /\ run.cleanups < MaxCleanupCalls
    /\ run' = [run EXCEPT !.pc = "CleanupTracer"]
    /\ UNCHANGED <<env, sdk>>

\* The twin main thread takes its own statement; at main.cpp:120 it draws its
\* own dice outcome, and no other statement reads a new outcome.
TwinStep ==
    IF AtInstr(twin, "RollDice")
    THEN \E d \in RollDice : twin' = ThreadNext(twin, d, sdk)
    ELSE twin' = ThreadNext(twin, twin.dice_result, sdk)

----------------------------------------------------------------------------
(* Specifications *)

Init ==
    /\ env \in [EnvNames -> EnvValues \cup {Absent}]
    /\ run = InitThread
    /\ twin = InitThread
    /\ sdk = InitSdk

Next ==
    \/ InitTracerStep /\ UNCHANGED twin
    \/ Loop /\ UNCHANGED twin
    \/ GetTracer /\ UNCHANGED twin
    \/ StartSpan /\ UNCHANGED twin
    \/ WithActiveSpan /\ UNCHANGED twin
    \/ SetAttribute /\ UNCHANGED twin
    \/ Sleep /\ UNCHANGED twin
    \/ RollDiceStep /\ UNCHANGED twin
    \/ End /\ UNCHANGED twin
    \/ ScopeExit /\ UNCHANGED twin
    \/ Return /\ UNCHANGED twin
    \/ Pause /\ UNCHANGED twin
    \/ CleanupSleep /\ UNCHANGED twin
    \/ CleanupReset /\ UNCHANGED twin
    \/ ShutdownExport /\ UNCHANGED twin
    \/ CleanupReturn /\ UNCHANGED twin
    \/ Finish /\ UNCHANGED twin
    \/ BackgroundExport /\ UNCHANGED twin

Spec == Init /\ [][Next]_vars

\* The run of main() followed by further calls of CleanupTracer().
NextShutdown == Next \/ (CleanupAgain /\ UNCHANGED twin)

SpecShutdown == Init /\ [][NextShutdown]_vars

\* Two main threads in lockstep, each drawing its own dice outcomes; the
\* exports of the worker thread and of the shutdown flush are steps of the
\* processor, not of a main thread.
NextPair ==
    \/ InitTracerStep /\ TwinStep
    \/ Loop /\ TwinStep
    \/ GetTracer /\ TwinStep
    \/ StartSpan /\ TwinStep
    \/ WithActiveSpan /\ TwinStep
    \/ SetAttribute /\ TwinStep
    \/ Sleep /\ TwinStep
    \/ RollDiceStep /\ TwinStep
    \/ End /\ TwinStep
    \/ ScopeExit /\ TwinStep
    \/ Return /\ TwinStep
    \/ Pause /\ TwinStep
    \/ CleanupSleep /\ TwinStep
    \/ CleanupReset /\ TwinStep
    \/ ShutdownExport /\ UNCHANGED twin
    \/ CleanupReturn /\ TwinStep
    \/ Finish /\ TwinStep
    \/ BackgroundExport /\ UNCHANGED twin

SpecPair == Init /\ [][NextPair]_vars

----------------------------------------------------------------------------
(* Helpers of the properties *)

IsPrefix(a, b) == Len(a) <= Len(b) /\ SubSeq(b, 1, Len(a)) = a

Requests == 1..num_requests

Kinds == {"server", "internal", "client"}

\* Request r has returned from ProcessRequest.
Completed(t, r) == r < t.i \/ (r = t.i /\ t.pc = "pause")

\* The span starts and ends made by ProcessRequest(r), in order.
SpanOrder(t, r) ==
    LET es == SelectSeq(t.log[r], LAMBDA e : e.ev \in {"start", "end"})
    IN  [k \in 1..Len(es) |-> <<es[k].ev, es[k].span[2]>>]

\* All calls of the run in order: the requests run one after the other.
RECURSIVE LogUpTo(_, _)
LogUpTo(t, r) == IF r = 0 THEN <<>> ELSE LogUpTo(t, r - 1) \o t.log[r]

FullLog(t) == LogUpTo(t, num_requests)

\* How many calls ev ProcessRequest(r) made on span id.
CallsIn(t, r, ev, id) ==
    Len(SelectSeq(t.log[r], LAMBDA e : e.ev = ev /\ e.span = id))

\* How many calls ev were made on spans of the given kind.
KindCalls(t, ev, kind) ==
    Len(SelectSeq(FullLog(t), LAMBDA e : e.ev = ev /\ e.span[2] = kind))

\* The ids of the ended spans, in the order of their End calls.
EndedIds(t) ==
    LET es == SelectSeq(FullLog(t), LAMBDA e : e.ev = "end")
    IN  [k \in 1..Len(es) |-> es[k].span]

\* The ids of the spans handed to the Exporter, in the order handed over.
ExportedIds(s) == [k \in 1..Len(s.exported) |-> s.exported[k].span.id]

NoDuplicates(q) == \A j, k \in 1..Len(q) : q[j] = q[k] => j = k

AfterLoop(t) ==
    t.pc \in {"CleanupTracer", "CleanupReset", "ProviderRelease", "return", "done"}

----------------------------------------------------------------------------
(* Properties *)

ExpectedOrder ==
    << <<"start", "server">>, <<"start", "internal">>, <<"end", "internal">>,
       <<"start", "client">>, <<"end", "client">>, <<"end", "server">> >>

\* C1: the span events of every request happen in the order server start,
\* internal start, internal end, client start, client end, server end: at
\* every moment the events made so far are a prefix of that order, and a
\* request that has returned has made all six.
C1_SpanEventOrder ==
    \A r \in Requests :
        /\ IsPrefix(SpanOrder(run, r), ExpectedOrder)
        /\ Completed(run, r) => SpanOrder(run, r) = ExpectedOrder

\* The tenth request has made its six span events and main has finished.
C1_Witness == run.pc = "done" /\ Len(SpanOrder(run, 10)) = 6

\* C2: a complete run starts and ends exactly 10 spans of each kind; a call
\* of ProcessRequest starts and ends only its own spans, and once it has
\* returned it has started and ended exactly one span of each kind; no span
\* is ended more often than started, nor started twice; no span is open once
\* the loop has finished.
C2_SpanCounts ==
    /\ \A r \in Requests :
          /\ \A k \in 1..Len(run.log[r]) :
                run.log[r][k].ev \in {"start", "end"} => run.log[r][k].span[1] = r
          /\ \A kind \in Kinds :
                LET started == CallsIn(run, r, "start", <<r, kind>>)
                    ended == CallsIn(run, r, "end", <<r, kind>>)
                IN  /\ ended <= started
                    /\ started <= 1
                    /\ Completed(run, r) => (started = 1 /\ ended = 1)
    /\ AfterLoop(run) =>
          /\ \A kind \in Kinds : /\ KindCalls(run, "start", kind) = 10
                                 /\ KindCalls(run, "end", kind) = 10
          /\ \A v \in SpanVars : run.span[v] = NullSpan

\* main has finished and ten server spans were started.
C2_Witness == run.pc = "done" /\ KindCalls(run, "start", "server") = 10

\* C3 as stated: when CleanupTracer has returned, the batch buffer is empty,
\* every span ended during the run has been handed to the Exporter, and the
\* global provider is no longer the instance installed by InitTracer.
C3_ShutdownFlushesAll ==
    run.cleanups >= 1 =>
        /\ sdk.buffer = <<>>
        /\ ExportedIds(sdk) = EndedIds(run)
        /\ sdk.provider # "sdk"

\* C3 as amended: when CleanupTracer has returned, the global provider is no
\* longer the instance installed by InitTracer and its shutdown is over;
\* every span ended during the run has been handed to the Exporter or is
\* still in the buffer, in the order ended; and from then on nothing more is
\* handed to the Exporter, so what is still buffered is lost.
C3_ShutdownBestEffort ==
    /\ [](run.cleanups >= 1 =>
            /\ sdk.provider # "sdk"
            /\ ~sdk.draining
            /\ LET buffered == [k \in 1..Len(sdk.buffer) |-> sdk.buffer[k].id]
               IN  ExportedIds(sdk) \o buffered = EndedIds(run))
    /\ [][run.cleanups >= 1 => sdk'.exported = sdk.exported]_vars

\* CleanupTracer returned after the timer had exported some spans, with
\* others still buffered when the shutdown ended.
C3_Witness ==
    /\ run.cleanups = 1
    /\ sdk.provider = "null"
    /\ Len(sdk.exported) >= 1
    /\ Len(sdk.buffer) >= 1

\* C4: once CleanupTracer has returned, a further call neither crashes nor
\* releases the provider again, and leaves the global provider, the buffer
\* and the exported spans as they are.
C4_ShutdownIdempotent ==
    [][run.cleanups >= 1 =>
          /\ sdk'.provider = sdk.provider
          /\ sdk'.released = sdk.released
          /\ sdk'.exported = sdk.exported
          /\ sdk'.buffer = sdk.buffer
          /\ sdk'.draining = sdk.draining
          /\ run'.pc # "crashed"]_vars

\* CleanupTracer has returned twice; the provider was released once.
C4_Witness == run.cleanups = 2 /\ run.pc = "return" /\ sdk.released = 1

\* C5: the global provider is written once by InitTracer and once by
\* CleanupTracer, in this order; at most one provider instance is alive; every
\* span start and end is made while the installed provider is the global one.
C5_ProviderLifecycle ==
    /\ IsPrefix(sdk.writes, <<"sdk", "null">>)
    /\ run.pc = "done" => sdk.writes = <<"sdk", "null">>
    /\ sdk.created - sdk.released \in {0, 1}
    /\ \A r \in Requests : \A k \in 1..Len(run.log[r]) :
          run.log[r][k].ev \in {"start", "end"} => run.log[r][k].prov = "sdk"

\* main has finished: spans were made, the provider was installed and cleared.
C5_Witness ==
    /\ run.pc = "done"
    /\ sdk.writes = <<"sdk", "null">>
    /\ KindCalls(run, "end", "client") = 10

\* The SetAttribute and End calls made on span id, in order.
SetsAndEnds(t, id) ==
    SelectSeq(FullLog(t), LAMBDA e : e.ev \in {"set", "end"} /\ e.span = id)

\* C6: no SetAttribute call is made on a span after End was called on it:
\* a call of ProcessRequest sets attributes and ends spans of its own request
\* only, and among its calls no set follows an end of the same span.
C6_NoSetAfterEnd ==
    \A r \in Requests :
        LET q == run.log[r]
        IN  \A j \in 1..Len(q) :
                /\ q[j].ev \in {"set", "end"} => q[j].span[1] = r
                /\ q[j].ev = "end" =>
                      \A k \in (j + 1)..Len(q) :
                          ~(q[k].ev = "set" /\ q[k].span = q[j].span)

\* A server span has ended with its two response attributes set before.
C6_Witness ==
    LET q == SetsAndEnds(run, <<3, "server">>)
    IN  /\ Len(q) = 13
        /\ q[11].key = "http.status_code"
        /\ q[12].key = "http.response_content_length"
        /\ q[13].ev = "end"

ExpectedResource ==
    [service_name |->
        IF env["OTEL_SERVICE_NAME"] = Absent THEN "cpp-sample-app"
        ELSE env["OTEL_SERVICE_NAME"],
     deployment_environment |->
        IF env["DEPLOYMENT_ENVIRONMENT"] = Absent THEN "local"
        ELSE env["DEPLOYMENT_ENVIRONMENT"]]

\* C7: once InitTracer has run, the resource holds the value of each variable
\* that is present and the default of each that is absent; it is built once,
\* and every batch handed to the Exporter carries it.
C7_ResourceFromEnv ==
    /\ sdk.created <= 1
    /\ sdk.created = 1 => sdk.resource = ExpectedResource
    /\ \A k \in 1..Len(sdk.exported) :
          sdk.exported[k].resource = ExpectedResource

\* A run with one variable present (and empty) and the other absent has
\* exported its spans.
C7_Witness ==
    /\ env["OTEL_SERVICE_NAME"] = ""
    /\ env["DEPLOYMENT_ENVIRONMENT"] = Absent
    /\ run.pc = "done"
    /\ Len(sdk.exported) >= 1
    /\ sdk.resource = [service_name |-> "", deployment_environment |-> "local"]

DiceRecorded(t) ==
    "dice.result" \in DOMAIN t.span["child_span"].attrs =>
        /\ t.dice_result \in 1..6
        /\ t.span["child_span"].attrs["dice.result"] = Num(t.dice_result)

\* C8: the dice outcome is in 1..6 and is the value of dice.result on the
\* internal span; two runs that draw their dice outcomes independently are at
\* the same statement and have made the same sequence of span starts,
\* attribute sets (by key) and span ends.
C8_DiceNotControl ==
    /\ DiceRecorded(run)
    /\ DiceRecorded(twin)
    /\ twin.pc = run.pc
    /\ twin.ip = run.ip
    /\ twin.i = run.i
    /\ twin.log = run.log

\* The two runs hold different dice outcomes, recorded on their internal
\* spans, in the fourth request.
C8_Witness ==
    /\ AtInstr(run, "End")
    /\ run.request_id = 4
    /\ run.dice_result = 6
    /\ twin.dice_result = 1
    /\ run.span["child_span"].attrs["dice.result"] = Num(6)
    /\ twin.span["child_span"].attrs["dice.result"] = Num(1)

\* C9: a server span starts with an empty context stack; an internal or
\* client span starts with the server span of the same request on top of the
\* stack, before that server span has ended; every scope pops the top of the
\* stack; the stack is empty outside ProcessRequest.  (A call of
\* ProcessRequest starts and ends spans of its own request only, so the end
\* of a request's server span is looked for among that call's events.)
C9_ParentLinkage ==
    /\ \A r \in Requests :
          LET q == run.log[r]
          IN  \A k \in 1..Len(q) :
                 LET e == q[k]
                 IN  /\ e.span[1] = r
                     /\ (e.ev = "start" /\ e.span[2] = "server") =>
                           e.parent = NoSpanId
                     /\ (e.ev = "start" /\ e.span[2] \in {"internal", "client"}) =>
                           /\ e.parent = <<r, "server">>
                           /\ \A j \in 1..(k - 1) :
                                 ~(q[j].ev = "end" /\ q[j].span = e.parent)
                     /\ e.ev = "pop" => e.parent = e.span
    /\ run.pc # "ProcessRequest" => run.stack = <<>>

\* A client span was started as a child of its request's server span, and
\* the request has returned with the stack empty.
C9_Witness ==
    /\ run.pc = "pause"
    /\ run.i = 2
    /\ run.stack = <<>>
    /\ \E k \in 1..Len(run.log[2]) :
          /\ run.log[2][k].ev = "start"
          /\ run.log[2][k].span = <<2, "client">>
          /\ run.log[2][k].parent = <<2, "server">>

\* C10: the buffer never holds more than 2048 spans; the spans handed to the
\* Exporter followed by the buffered ones are the ended spans in the order of
\* their End calls, each once; and no export call (each is one step) hands
\* over more than 512 spans.
C10_BatchBoundsFifo ==
    /\ [](/\ Len(sdk.buffer) <= 2048
          /\ LET buffered == [k \in 1..Len(sdk.buffer) |-> sdk.buffer[k].id]
             IN  ExportedIds(sdk) \o buffered = EndedIds(run)
          /\ NoDuplicates(ExportedIds(sdk)))
    /\ [][Len(sdk'.exported) - Len(sdk.exported) <= 512]_vars

\* The timer has exported several spans while the provider is alive, and
\* further spans were ended and buffered after it.
C10_Witness ==
    /\ sdk.provider = "sdk"
    /\ Len(sdk.exported) >= 4
    /\ Len(sdk.buffer) >= 2

====
